---- MODULE Spec2Model ----
(***************************************************************************)
(* LOLZTEAM client: the UNIVERSAL dual-mode dispatcher, its job capture    *)
(* adapter (job / job_on_request) and the RETRY decorator of               *)
(* Client/Base/Wrappers.py, with the Antipublic endpoint operations of     *)
(* Client/Antipublic.py as the operations they wrap.                       *)
(***************************************************************************)
EXTENDS Integers, Sequences, FiniteSets, TLC

(***************************************************************************)
(* Bounds of the model.                                                    *)
(***************************************************************************)
\* parameter values of the merge inputs are the decimal strings "1".."MaxVal"
MaxVal == 2
\* a generic operation body makes at most MaxCalls transport calls
MaxCalls == 2
\* RETRY is instantiated with count in 0..MaxCount
MaxCount == 3

(***************************************************************************)
(* Program constants.                                                      *)
(***************************************************************************)
\* random.randint(1, 1000000)
RandLo == 1
RandHi == 1000000

(***************************************************************************)
(* Values.  Every parameter value is a string (its rendered form); the     *)
(* unset sentinel NONE is a string no parameter value equals.              *)
(***************************************************************************)
NONE == "<NONE>"

Digit(d) ==
    CASE d = 0 -> "0" [] d = 1 -> "1" [] d = 2 -> "2" [] d = 3 -> "3"
      [] d = 4 -> "4" [] d = 5 -> "5" [] d = 6 -> "6" [] d = 7 -> "7"
      [] d = 8 -> "8" [] d = 9 -> "9"

RECURSIVE Dec(_)
\* str(n) of a non-negative int: its decimal digits
Dec(n) == IF n < 10 THEN Digit(n) ELSE Dec(n \div 10) \o Digit(n % 10)

\* the empty dict {}
EmptyMap == [k \in {} |-> NONE]

\* every dict with keys among ks and values among vs
Mappings(ks, vs) == UNION {[d -> vs] : d \in SUBSET ks}

\* _NONE.TrimNONE(d): d without the entries whose value is the sentinel
TrimNONE(d) == [k \in {x \in DOMAIN d : d[x] # NONE} |-> d[k]]

\* faulty variant: a key both hold keeps both values, joined
UpdateJoined(a, b) ==
    [k \in (DOMAIN a) \cup (DOMAIN b) |->
       IF k \in DOMAIN a /\ k \in DOMAIN b THEN a[k] \o "," \o b[k]
       ELSE IF k \in DOMAIN b THEN b[k] ELSE a[k]]

\* a.update(b): b's entries over a's
Update(a, b) == [k \in (DOMAIN a) \cup (DOMAIN b) |-> IF k \in DOMAIN b THEN b[k] ELSE a[k]]

\* d.get(name, {})
GetGroup(d, name) == IF name \in DOMAIN d THEN d[name] ELSE EmptyMap

(***************************************************************************)
(* job_id keyword values: absent, an int or a string.                      *)
(***************************************************************************)
NoJobId == [given |-> FALSE, isInt |-> FALSE, n |-> 0, s |-> ""]
IntJobId(n) == [given |-> TRUE, isInt |-> TRUE, n |-> n, s |-> ""]
StrJobId(s) == [given |-> TRUE, isInt |-> FALSE, n |-> 0, s |-> s]

\* str(x) of a job_id value
Str(x) == IF x.isInt THEN Dec(x.n) ELSE x.s

\* faulty variant: the id always drawn at random
JobIdStringDrawn(job_id, rnd) == Dec(rnd)

\* str(kwargs.get("job_id", random.randint(1, 1000000))), rnd the number drawn
JobIdString(job_id, rnd) == IF job_id.given THEN Str(job_id) ELSE Dec(rnd)

\* the numbers random.randint is taken to draw: both ends and one inside
RandomDraws == {RandLo, RandLo + 6, RandHi}

(***************************************************************************)
(* Transport calls: request(method, endpoint, **kwargs), kwargs a dict     *)
(* with some of the keyword groups params / data / json.                   *)
(***************************************************************************)
GroupNames == {"params", "data", "json"}

NoCall == [method |-> "", endpoint |-> "", kw |-> EmptyMap]

\* what the real transport answers to call c
Response(c) == [vk |-> "Response", method |-> c.method, endpoint |-> c.endpoint]
NoneValue == [vk |-> "None", method |-> "", endpoint |-> ""]
NoValue == [vk |-> "unset", method |-> "", endpoint |-> ""]
\* the coroutine object run() of the dispatcher, not started
Coroutine == [vk |-> "coroutine", method |-> "", endpoint |-> ""]

(***************************************************************************)
(* Instances and operations.  antipublic.core = antipublic, info.core =    *)
(* account.core = antipublic; "client" is a client without a core          *)
(* attribute and "section" a sub-API of it with core = client.             *)
(***************************************************************************)
Instances == {"antipublic", "info", "account", "client", "section"}
Heads == {"antipublic", "client"}

\* hasattr(instance, "core")
HasCore(inst) == inst \in {"antipublic", "info", "account", "section"}
\* instance.core
CoreOf(inst) == IF inst = "section" THEN "client" ELSE "antipublic"

\* the head instance job picks
HeadOf(inst) == IF HasCore(inst) THEN CoreOf(inst) ELSE inst

\* the object whose request attribute an operation body calls
\* (self.core.request in every body of Antipublic.py)
TransportOwner(inst) == IF HasCore(inst) THEN CoreOf(inst) ELSE inst

AntipublicOps == {"info.lines", "info.version", "account.access", "account.queries",
                  "check", "search", "passwords"}
\* operations declared with UNIVERSAL(batchable=True) over an arbitrary body:
\* one whose signature takes **kwargs, one with a fixed signature
GenericOps == {"batch_kw", "batch_fixed"}
Ops == AntipublicOps \cup GenericOps \cup {"request"}

OpsOf(inst) ==
    CASE inst = "antipublic" -> {"check", "search", "passwords", "request"}
      [] inst = "info" -> {"info.lines", "info.version"}
      [] inst = "account" -> {"account.access", "account.queries"}
      [] inst = "client" -> GenericOps \cup {"request"}
      [] inst = "section" -> GenericOps

\* the batchable flag each operation is decorated with: @UNIVERSAL() throughout
\* Antipublic.py
Batchable(op) == op \notin AntipublicOps

\* self.func.__qualname__ == "APIClient.request"
IsRequest(op) == op = "request"

\* whether the operation's signature binds a job_id keyword
AcceptsJobId(op) == op = "batch_kw"

\* the arguments of each operation, defaults applied
ArgsOf(op) ==
    CASE op = "info.lines" -> [plain : {"True", "False"}]
      [] op = "check" -> [lines : {"['a:b', 'c:d']"}, insert : {"True", "False"}]
      [] op = "search" -> [searchBy : {"email"}, query : {"{'email': 'test@mail.ru'}"},
                           direction : {NONE, "{'email': 'start'}"}, token : {NONE, "tok"}]
      [] op = "passwords" -> [emails : {"['test@mail.ru']"}, limit : {NONE, "1"}]
      [] OTHER -> {EmptyMap}

\* the single transport call each Antipublic operation body makes
AntipublicCall(op, args) ==
    CASE op = "info.lines" ->
           IF args.plain = "True"
           THEN [method |-> "GET", endpoint |-> "/countLinesPlain", kw |-> EmptyMap]
           ELSE [method |-> "GET", endpoint |-> "/countLines", kw |-> EmptyMap]
      [] op = "info.version" -> [method |-> "GET", endpoint |-> "/version", kw |-> EmptyMap]
      [] op = "account.access" -> [method |-> "GET", endpoint |-> "/checkAccess", kw |-> EmptyMap]
      [] op = "account.queries" ->
           [method |-> "GET", endpoint |-> "/availableQueries", kw |-> EmptyMap]
      [] op = "check" ->
           [method |-> "POST", endpoint |-> "/checkLines",
            kw |-> [json |-> [lines |-> args.lines, insert |-> args.insert]]]
      [] op = "search" ->
           [method |-> "POST", endpoint |-> "/search",
            kw |-> [json |-> [searchBy |-> args.searchBy, query |-> args.query,
                              direction |-> args.direction, pageToken |-> args.token]]]
      [] op = "passwords" ->
           [method |-> "POST", endpoint |-> "/emailPasswords",
            kw |-> [json |-> [emails |-> args.emails, limit |-> args.limit]]]

\* the transport calls a generic body (or a caller of request) may make
\* (each keyword group absent, or holding key k unset or set to a value of its own)
SampleValue == [params |-> "1", data |-> "2", json |-> "3"]
SampleKw ==
    UNION {{kw \in [g -> {[k |-> v] : v \in {NONE, "1", "2", "3"}}] :
              \A n \in g : kw[n].k \in {NONE, SampleValue[n]}} : g \in SUBSET GroupNames}
GenericCalls == [method : {"GET", "POST"}, endpoint : {"/a", "/b"}, kw : SampleKw]

\* the job_id values callers pass
JobIds == {NoJobId, IntJobId(7), StrJobId("7"), StrJobId("x")}

(***************************************************************************)
(* Job Descriptors.                                                        *)
(***************************************************************************)
NoDesc == [id |-> "", method |-> "", uri |-> "", params |-> EmptyMap]

\* faulty variant: the groups merged in the opposite order
JobParamsJsonFirst(captured) ==
    LET p0 == TrimNONE(GetGroup(captured.kw, "json"))
        p1 == Update(p0, TrimNONE(GetGroup(captured.kw, "data")))
    IN Update(p1, TrimNONE(GetGroup(captured.kw, "params")))

\* faulty variant: the json group merged as captured, not trimmed
JobParamsRawJson(captured) ==
    LET p0 == TrimNONE(GetGroup(captured.kw, "params"))
        p1 == Update(p0, TrimNONE(GetGroup(captured.kw, "data")))
    IN Update(p1, GetGroup(captured.kw, "json"))

\* job, lines 90-92: the params of the descriptor from the captured dict
JobParams(captured) ==
    LET p0 == TrimNONE(GetGroup(captured.kw, "params"))
        p1 == Update(p0, TrimNONE(GetGroup(captured.kw, "data")))
    IN Update(p1, TrimNONE(GetGroup(captured.kw, "json")))

\* faulty variant: method and uri taken from each other's captured field
JobDescriptorSwapped(captured, job_id, rnd) ==
    [id |-> JobIdString(job_id, rnd), method |-> captured.endpoint,
     uri |-> captured.method, params |-> JobParams(captured)]

\* job, lines 94-99
JobDescriptor(captured, job_id, rnd) ==
    [id |-> JobIdString(job_id, rnd), method |-> captured.method,
     uri |-> captured.endpoint, params |-> JobParams(captured)]

\* job_on_request, lines 107-109
RequestParams(kwargs) ==
    LET p0 == TrimNONE(GetGroup(kwargs, "params"))
        p1 == Update(p0, TrimNONE(GetGroup(kwargs, "data")))
    IN Update(p1, TrimNONE(GetGroup(kwargs, "json")))

\* job_on_request, lines 103-115
job_on_request(method, endpoint, kwargs, job_id, rnd) ==
    [id |-> JobIdString(job_id, rnd), method |-> method, uri |-> endpoint,
     params |-> RequestParams(kwargs)]

(***************************************************************************)
(* State.                                                                  *)
(***************************************************************************)
Threads == {"t1", "t2"}
\* the caller of the sequential specification
SeqThreads == {"t1"}
\* identities of RequestCapture objects
CaptureIds == {"c1", "c2", "c3", "c4", "c5", "c6", "c7"}

VARIABLES
    request,    \* request[h]: the request attribute of head instance h: "real" or a capture
    captured,   \* captured[c]: the capture slot of RequestCapture object c
    pc,         \* pc[t]: where thread t's call stands
    fr,         \* fr[t]: the local variables of thread t's call
    loop,       \* loop[t]: the event loop of thread t: "none", "idle" or "running"
    coro,       \* coro[t]: the coroutine the dispatcher handed thread t, not yet awaited
    last,       \* the call that has just returned, and what it returned
    retry,      \* one call of a RETRY-wrapped function
    ever,       \* whether a capture that has ended recorded a transport call
    turn        \* of the tasks of one event loop, the one the loop is running

vars == <<request, captured, pc, fr, loop, coro, last, retry, ever, turn>>

\* faulty variant: a capture slot that starts with a call in it
StaleCapture == [set |-> TRUE, call |-> NoCall]

\* RequestCapture.__init__, lines 51-52: self.captured = None
NoCapture == [set |-> FALSE, call |-> NoCall]

\* the method and endpoint of a call
LineOf(c) == [method |-> c.method, endpoint |-> c.endpoint]

IdleFrame ==
    [kind |-> "none", op |-> "", inst |-> "", kwargs |-> EmptyMap, job_id |-> NoJobId,
     capture |-> "", original |-> "", made |-> NoCall, ncalls |-> 0, hits |-> 0,
     stubbed |-> 0, got |-> NoValue, exc |-> "", desc |-> NoDesc, inloop |-> FALSE,
     overwritten |-> LineOf(NoCall), worker |-> "none"]

NoCoro == [op |-> "", inst |-> "", kwargs |-> EmptyMap]

NoLast == [thread |-> "", f |-> IdleFrame, outcome |-> "none", value |-> NoValue]

RetryIdle ==
    [pc |-> "idle", count |-> 0, i |-> 0, calls |-> 0, sleeps |-> 0,
     outcomes |-> <<>>, result |-> "none"]

Init ==
    /\ request = [h \in Heads |-> "real"]
    /\ captured = [c \in CaptureIds |-> NoCapture]
    /\ pc = [t \in Threads |-> "idle"]
    /\ fr = [t \in Threads |-> IdleFrame]
    /\ loop = [t \in Threads |-> "none"]
    /\ coro = [t \in Threads |-> NoCoro]
    /\ last = NoLast
    /\ retry = RetryIdle
    /\ ever = FALSE
    /\ turn = "t1"

\* a capture object something still refers to
Referenced(c, req, frames) ==
    \/ \E h \in Heads : req[h] = c
    \/ \E t \in Threads : frames[t].capture = c \/ frames[t].original = c

\* RequestCapture(): a new object
FreshCapture == CHOOSE c \in CaptureIds : ~Referenced(c, request, fr)

\* capture objects nothing refers to any more are gone
Collect(cap, req, frames) ==
    [c \in CaptureIds |-> IF Referenced(c, req, frames) THEN cap[c] ELSE NoCapture]

\* thread t can start a call: the caller has taken the previous call's result
CanStart(t) == pc[t] = "idle" /\ coro[t] = NoCoro /\ last = NoLast

(***************************************************************************)
(* Returning to the caller.                                                *)
(***************************************************************************)
\* thread t's call ends with outcome ("return" or "raise") and value; req is the
\* request table it leaves
Finish(t, frame, outcome, value, req) ==
    LET frames == [fr EXCEPT ![t] = IdleFrame] IN
    /\ pc' = [pc EXCEPT ![t] = "idle"]
    /\ fr' = frames
    /\ request' = req
    /\ captured' = Collect(captured, req, frames)
    /\ last' = [thread |-> t, f |-> frame, outcome |-> outcome, value |-> value]
    /\ ever' = (ever \/ (frame.kind = "job" /\ frame.stubbed > 0))

\* the caller takes what the call returned or raised
Taken ==
    /\ last # NoLast
    /\ last' = NoLast
    /\ UNCHANGED <<request, captured, pc, fr, loop, coro, retry, ever, turn>>

(***************************************************************************)
(* The event loop of the calling thread, as its owner runs and stops it    *)
(* (asyncio.run(async_example()) in the example of Antipublic.__init__).   *)
(***************************************************************************)
EnterLoop(t) ==
    /\ CanStart(t)
    /\ loop[t] # "running"
    /\ loop' = [loop EXCEPT ![t] = "running"]
    /\ UNCHANGED <<request, captured, pc, fr, coro, last, retry, ever, turn>>

LeaveLoop(t) ==
    /\ CanStart(t)
    /\ loop[t] = "running"
    /\ \E s \in {"none", "idle"} : loop' = [loop EXCEPT ![t] = s]
    /\ UNCHANGED <<request, captured, pc, fr, coro, last, retry, ever, turn>>

(***************************************************************************)
(* The dispatcher: wrapper, lines 117-129.                                 *)
(***************************************************************************)
\* faulty variant: the coroutine handed back whatever the loop does
WrapperModePending(running) == "pending"

\* faulty variant: run_until_complete whatever the loop does
WrapperModeDrive(running) == "drive"

\* line 126: what wrapper does given loop.is_running()
WrapperMode(running) == IF running THEN "pending" ELSE "drive"

Call(t) ==
    /\ CanStart(t)
    /\ \E inst \in Instances : \E op \in OpsOf(inst) : \E args \in ArgsOf(op) :
         LET frame == [IdleFrame EXCEPT !.kind = "call", !.op = op, !.inst = inst,
                                        !.kwargs = args,
                                        !.inloop = (loop[t] = "running")]
             mode == WrapperMode(loop[t] = "running")
         IN IF mode = "pending"
            THEN \* return run(): the body has not started
                 /\ coro' = [coro EXCEPT ![t] = [op |-> op, inst |-> inst, kwargs |-> args]]
                 /\ last' = [thread |-> t, f |-> frame, outcome |-> "return",
                             value |-> Coroutine]
                 /\ UNCHANGED <<request, captured, pc, fr, loop>>
            ELSE IF loop[t] = "running"
            THEN \* run_until_complete on a running loop raises RuntimeError
                 /\ last' = [thread |-> t, f |-> [frame EXCEPT !.exc = "RuntimeError"],
                             outcome |-> "raise", value |-> NoValue]
                 /\ UNCHANGED <<request, captured, pc, fr, loop, coro>>
            ELSE \* loop.run_until_complete(run()) on the thread's own loop
                 /\ pc' = [pc EXCEPT ![t] = "body"]
                 /\ fr' = [fr EXCEPT ![t] = frame]
                 /\ loop' = [loop EXCEPT ![t] = "running"]
                 /\ last' = NoLast
                 /\ UNCHANGED <<request, captured, coro>>
    /\ UNCHANGED <<retry, ever, turn>>

\* the caller awaits the coroutine the dispatcher returned
Await(t) ==
    /\ pc[t] = "idle"
    /\ coro[t] # NoCoro
    /\ last = NoLast
    /\ loop[t] = "running"
    /\ pc' = [pc EXCEPT ![t] = "body"]
    /\ fr' = [fr EXCEPT ![t] = [IdleFrame EXCEPT !.kind = "await", !.op = coro[t].op,
                                   !.inst = coro[t].inst, !.kwargs = coro[t].kwargs,
                                   !.inloop = TRUE]]
    /\ coro' = [coro EXCEPT ![t] = NoCoro]
    /\ last' = NoLast
    /\ UNCHANGED <<request, captured, loop, retry, ever, turn>>

(***************************************************************************)
(* The operation body: await self.func(instance, *args, **kwargs).         *)
(***************************************************************************)
\* RequestCapture.__call__, lines 54-60: the captured dict
RecordCall(c) == [set |-> TRUE, call |-> c]

\* faulty variant: the slot keeps the first call it was given
SlotAfterFirst(slot, c) == IF slot.set THEN slot ELSE RecordCall(c)

\* line 55: self.captured = {...} replaces whatever the slot held
SlotAfter(slot, c) == RecordCall(c)

\* the transport calls the body of frame f may make next
NextCalls(f) ==
    IF f.op \in AntipublicOps
    THEN IF f.ncalls = 0 THEN {AntipublicCall(f.op, f.kwargs)} ELSE {}
    ELSE IF IsRequest(f.op)
    THEN IF f.ncalls = 0 THEN GenericCalls ELSE {}
    ELSE IF f.ncalls < MaxCalls THEN GenericCalls ELSE {}

\* whether the body of frame f may return now
MayReturn(f) == IF f.op \in GenericOps THEN TRUE ELSE f.ncalls = 1

\* the body ends (returns value, or raises exc): control goes back to job's try
\* block or to the caller of the dispatcher
BodyEnds(t, frame, outcome, value) ==
    IF frame.kind = "job"
    THEN \* lines 81-83: run_until_complete ends, the worker closes its loop
         /\ pc' = [pc EXCEPT ![t] = IF outcome = "return" THEN "job_build" ELSE "job_finally"]
         /\ fr' = [fr EXCEPT ![t] = [frame EXCEPT !.worker = "closed"]]
         /\ UNCHANGED <<request, captured, loop, last, ever>>
    ELSE /\ Finish(t, frame, outcome, value, request)
         /\ loop' = [loop EXCEPT ![t] = IF frame.kind = "call" THEN "idle" ELSE @]

\* await self.core.request(method, endpoint, **kwargs) while the entry point is a
\* recording stub
StubbedCall(t) ==
    /\ pc[t] = "body"
    /\ LET f == fr[t]
           entry == request[TransportOwner(f.inst)]
       IN /\ entry # "real"
          /\ \E c \in NextCalls(f) :
               /\ captured' = [captured EXCEPT ![entry] = SlotAfter(captured[entry], c)]
               /\ fr' = [fr EXCEPT ![t] = [f EXCEPT !.made = c, !.ncalls = @ + 1,
                                              !.stubbed = @ + 1, !.got = NoneValue,
                                              !.overwritten = LineOf(captured[entry].call)]]
    /\ UNCHANGED <<request, pc, loop, coro, last, retry, ever, turn>>

\* the same while the entry point is the real transport, which answers
TransportCall(t) ==
    /\ pc[t] = "body"
    /\ LET f == fr[t]
           entry == request[TransportOwner(f.inst)]
       IN /\ entry = "real"
          /\ \E c \in NextCalls(f) :
               fr' = [fr EXCEPT ![t] = [f EXCEPT !.made = c, !.ncalls = @ + 1,
                                           !.hits = @ + 1, !.got = Response(c)]]
    /\ UNCHANGED <<request, captured, pc, loop, coro, last, retry, ever, turn>>

\* ... or fails, and the failure leaves the body
TransportFail(t) ==
    /\ pc[t] = "body"
    /\ LET f == fr[t]
           entry == request[TransportOwner(f.inst)]
       IN /\ entry = "real"
          /\ \E c \in NextCalls(f) :
               BodyEnds(t, [f EXCEPT !.made = c, !.ncalls = @ + 1, !.hits = @ + 1,
                                     !.exc = "httpx.NetworkError"], "raise", NoValue)
    /\ UNCHANGED <<coro, retry, turn>>

\* return await self.core.request(...)
BodyReturn(t) ==
    /\ pc[t] = "body"
    /\ MayReturn(fr[t])
    /\ LET value == IF fr[t].ncalls = 0 THEN NoneValue ELSE fr[t].got
       IN BodyEnds(t, fr[t], "return", value)
    /\ UNCHANGED <<coro, retry, turn>>

\* a generic body raises
BodyRaise(t) ==
    /\ pc[t] = "body"
    /\ fr[t].op \in GenericOps
    /\ BodyEnds(t, [fr[t] EXCEPT !.exc = "ValueError"], "raise", NoValue)
    /\ UNCHANGED <<coro, retry, turn>>

(***************************************************************************)
(* __get__, lines 131-139: the job attribute of the wrapper.               *)
(***************************************************************************)
\* "job" (generic capture), "job_on_request" (direct construction) or "none"
JobForm(op) ==
    IF Batchable(op)
    THEN IF IsRequest(op) THEN "job_on_request" ELSE "job"
    ELSE "none"

\* wrapper.job of an operation that is not batchable: AttributeError
JobMissing(t) ==
    /\ CanStart(t)
    /\ \E inst \in Instances : \E op \in OpsOf(inst) : \E args \in ArgsOf(op) :
       \E jid \in JobIds :
         /\ JobForm(op) = "none"
         /\ last' = [thread |-> t,
                     f |-> [IdleFrame EXCEPT !.kind = "job", !.op = op, !.inst = inst,
                                             !.kwargs = args, !.job_id = jid,
                                             !.exc = "AttributeError",
                                             !.inloop = (loop[t] = "running")],
                     outcome |-> "raise", value |-> NoValue]
    /\ UNCHANGED <<request, captured, pc, fr, loop, coro, retry, ever, turn>>

(***************************************************************************)
(* job_on_request, lines 103-115.                                          *)
(***************************************************************************)
JobOnRequest(t) ==
    /\ CanStart(t)
    /\ \E inst \in Instances : \E op \in OpsOf(inst) : \E c \in GenericCalls :
       \E jid \in JobIds : \E rnd \in RandomDraws :
         /\ JobForm(op) = "job_on_request"
         /\ last' = [thread |-> t,
                     f |-> [IdleFrame EXCEPT !.kind = "job_on_request", !.op = op,
                                             !.inst = inst, !.job_id = jid, !.made = c,
                                             !.desc = job_on_request(c.method, c.endpoint,
                                                                     c.kw, jid, rnd),
                                             !.inloop = (loop[t] = "running")],
                     outcome |-> "return", value |-> NoValue]
    /\ UNCHANGED <<request, captured, pc, fr, loop, coro, retry, ever, turn>>

(***************************************************************************)
(* job, lines 62-101.                                                      *)
(***************************************************************************)
\* lines 66-72: capture = RequestCapture(); original_request = head_instance.request
JobBegin(t) ==
    /\ CanStart(t)
    /\ \E inst \in Instances : \E op \in OpsOf(inst) : \E args \in ArgsOf(op) :
       \E jid \in JobIds :
         /\ JobForm(op) = "job"
         /\ LET c == FreshCapture IN
            /\ fr' = [fr EXCEPT ![t] =
                        [IdleFrame EXCEPT !.kind = "job", !.op = op, !.inst = inst,
                                          !.kwargs = args, !.job_id = jid, !.capture = c,
                                          !.original = request[HeadOf(inst)],
                                          !.inloop = (loop[t] = "running")]]
            /\ captured' = [captured EXCEPT ![c] = NoCapture]
    /\ pc' = [pc EXCEPT ![t] = "job_install"]
    /\ last' = NoLast
    /\ UNCHANGED <<request, loop, coro, retry, ever, turn>>

\* faulty variant: the entry point left as it was
InstalledOriginal(f) == f.original

\* line 73: what job puts in head_instance.request
Installed(f) == f.capture

\* line 73: head_instance.request = capture
JobInstall(t) ==
    /\ pc[t] = "job_install"
    /\ request' = [request EXCEPT ![HeadOf(fr[t].inst)] = Installed(fr[t])]
    /\ pc' = [pc EXCEPT ![t] = "job_submit"]
    /\ UNCHANGED <<captured, fr, loop, coro, last, retry, ever, turn>>

\* lines 78-81: the loop the worker thread drives, asyncio.new_event_loop()
WorkerLoop == "driven"

\* lines 75-87: the worker thread starts the body on its own new loop; binding
\* the keywords of job (job_id among them) to the operation's signature fails
\* with TypeError when the signature has no job_id
JobSubmit(t) ==
    /\ pc[t] = "job_submit"
    /\ IF fr[t].job_id.given /\ ~AcceptsJobId(fr[t].op)
       THEN /\ pc' = [pc EXCEPT ![t] = "job_finally"]
            /\ fr' = [fr EXCEPT ![t].exc = "TypeError", ![t].worker = "closed"]
       ELSE /\ pc' = [pc EXCEPT ![t] = "body"]
            /\ fr' = [fr EXCEPT ![t].worker = WorkerLoop]
    /\ UNCHANGED <<request, captured, loop, coro, last, retry, ever, turn>>

\* lines 88-99: captured = capture.captured; the descriptor.  captured.get on
\* None raises AttributeError
JobBuild(t) ==
    /\ pc[t] = "job_build"
    /\ LET slot == captured[fr[t].capture] IN
       IF slot.set
       THEN \E rnd \in RandomDraws :
              fr' = [fr EXCEPT ![t].desc = JobDescriptor(slot.call, fr[t].job_id, rnd)]
       ELSE fr' = [fr EXCEPT ![t].exc = "AttributeError"]
    /\ pc' = [pc EXCEPT ![t] = "job_finally"]
    /\ UNCHANGED <<request, captured, loop, coro, last, retry, ever, turn>>

\* faulty variant: the restoration after the try block instead of in a finally clause
RestoredUnlessRaised(f) == IF f.exc = "" THEN f.original ELSE f.capture

\* faulty variant: the real transport put back whatever was saved
RestoredReal(f) == "real"

\* line 101, the finally block: what job leaves in head_instance.request
Restored(f) == f.original

\* faulty variant: an except clause that swallows what the try block raised
JobOutcomeSwallowed(f) == "return"

\* lines 85-101, try ... finally with no except clause: job returns when the try
\* block built the descriptor and otherwise lets the exception through
JobOutcome(f) == IF f.exc = "" THEN "return" ELSE "raise"

\* line 101, then job returns the descriptor or lets the exception through
JobFinally(t) ==
    /\ pc[t] = "job_finally"
    /\ LET f == fr[t]
           req == [request EXCEPT ![HeadOf(f.inst)] = Restored(f)]
       IN Finish(t, f, JobOutcome(f), NoValue, req)
    /\ UNCHANGED <<loop, coro, retry, turn>>

(***************************************************************************)
(* One caller making one call after the other.                             *)
(***************************************************************************)
Next ==
    \/ Taken
    \/ \E t \in SeqThreads :
        \/ EnterLoop(t) \/ LeaveLoop(t)
        \/ Call(t) \/ Await(t)
        \/ StubbedCall(t) \/ TransportCall(t) \/ TransportFail(t)
        \/ BodyReturn(t) \/ BodyRaise(t)
        \/ JobMissing(t) \/ JobOnRequest(t)
        \/ JobBegin(t) \/ JobInstall(t) \/ JobSubmit(t) \/ JobBuild(t) \/ JobFinally(t)

Spec == Init /\ [][Next]_vars

(***************************************************************************)
(* RETRY(count), lines 14-30: one call of the wrapper around func.         *)
(***************************************************************************)
\* what one invocation of func does: it returns, or raises one of these
TransientFaults == {"httpx.TimeoutException", "httpx.ConnectTimeout",
                    "httpx.ReadTimeout", "httpx.NetworkError"}
Outcomes == {"ok", "other"} \cup TransientFaults

\* faulty variant: a bare except, catching whatever func raises
CaughtAny(e) == e # "ok"

\* lines 24-25: the except clause catches e
Caught(e) == e \in TransientFaults

\* faulty variant: one iteration too many
MoreGuardedInclusive(i, count) == i <= count

\* line 21: for _ in range(count) has an iteration left after i of them
MoreGuarded(i, count) == i < count

\* the position after i iterations of the loop
AfterIteration(i, count) == IF MoreGuarded(i, count) THEN "guarded" ELSE "final"

\* RETRY(count)(func) is called
RetryStart ==
    /\ retry.pc = "idle"
    /\ \E count \in 0..MaxCount :
         retry' = [RetryIdle EXCEPT !.count = count, !.pc = AfterIteration(0, count)]
    /\ UNCHANGED <<request, captured, pc, fr, loop, coro, last, ever, turn>>

\* lines 22-25: return await func(...) inside the try
RetryGuarded ==
    /\ retry.pc = "guarded"
    /\ \E o \in Outcomes :
         LET r == [retry EXCEPT !.calls = @ + 1, !.outcomes = Append(@, o)] IN
         retry' = IF o = "ok" THEN [r EXCEPT !.pc = "done", !.result = "returned"]
                  ELSE IF Caught(o) THEN [r EXCEPT !.pc = "sleep"]
                  ELSE [r EXCEPT !.pc = "done", !.result = o]
    /\ UNCHANGED <<request, captured, pc, fr, loop, coro, last, ever, turn>>

\* lines 26-27: await asyncio.sleep(0.5); continue
RetrySleep ==
    /\ retry.pc = "sleep"
    /\ retry' = [retry EXCEPT !.sleeps = @ + 1, !.i = @ + 1,
                              !.pc = AfterIteration(retry.i + 1, retry.count)]
    /\ UNCHANGED <<request, captured, pc, fr, loop, coro, last, ever, turn>>

\* line 28: return await func(...) after the loop
RetryFinal ==
    /\ retry.pc = "final"
    /\ \E o \in Outcomes :
         retry' = [retry EXCEPT !.calls = @ + 1, !.outcomes = Append(@, o),
                                !.pc = "done",
                                !.result = IF o = "ok" THEN "returned" ELSE o]
    /\ UNCHANGED <<request, captured, pc, fr, loop, coro, last, ever, turn>>

NextRetry == RetryStart \/ RetryGuarded \/ RetrySleep \/ RetryFinal

SpecRetry == Init /\ [][NextRetry]_vars

(***************************************************************************)
(* The two descriptor builders on their own, over every combination of     *)
(* keyword groups with keys a, b and values unset, "1" .. "MaxVal".        *)
(***************************************************************************)
MergeKeys == {"a", "b"}
MergeValues == {NONE} \cup {Dec(i) : i \in 1..MaxVal}
MergeKw == UNION {[g -> Mappings(MergeKeys, MergeValues)] : g \in SUBSET GroupNames}

\* client.request.job("POST", "/a", **kw)
MergeRequest ==
    /\ last = NoLast
    /\ \E kw \in MergeKw :
         last' = [thread |-> "t1",
                  f |-> [IdleFrame EXCEPT !.kind = "job_on_request", !.op = "request",
                                          !.inst = "client",
                                          !.made = [method |-> "POST", endpoint |-> "/a",
                                                    kw |-> kw],
                                          !.desc = job_on_request("POST", "/a", kw,
                                                                  NoJobId, RandLo)],
                  outcome |-> "return", value |-> NoValue]
    /\ UNCHANGED <<request, captured, pc, fr, loop, coro, retry, ever, turn>>

\* client.batch_kw.job(), the body making the one transport call
\* request("POST", "/a", **kw), from line 66 to line 101 with nothing in between
MergeJob ==
    /\ last = NoLast
    /\ \E kw \in MergeKw :
         LET c == [method |-> "POST", endpoint |-> "/a", kw |-> kw]
             slot == RecordCall(c)
             f == [IdleFrame EXCEPT !.kind = "job", !.op = "batch_kw", !.inst = "client",
                                    !.capture = FreshCapture,
                                    !.original = request[HeadOf("client")],
                                    !.made = c, !.ncalls = 1, !.stubbed = 1,
                                    !.got = NoneValue, !.worker = "closed",
                                    !.desc = JobDescriptor(slot.call, NoJobId, RandLo)]
         IN /\ last' = [thread |-> "t1", f |-> f, outcome |-> "return", value |-> NoValue]
            /\ request' = [request EXCEPT ![HeadOf("client")] = Restored(f)]
    /\ UNCHANGED <<captured, pc, fr, loop, coro, retry, ever, turn>>

NextMerge == Taken \/ MergeRequest \/ MergeJob

SpecMerge == Init /\ [][NextMerge]_vars

(***************************************************************************)
(* Two threads t1 and t2 using one client at the same time, each with its  *)
(* own loop: dispatcher calls and captures of client.batch_kw.             *)
(***************************************************************************)
\* the transport call the bodies t starts make, a call of its own for each
ConcCallOf(t) ==
    IF t = "t1" THEN [method |-> "GET", endpoint |-> "/a", kw |-> EmptyMap]
    ELSE [method |-> "POST", endpoint |-> "/b", kw |-> [json |-> [k |-> "3"]]]

\* the bodies of the concurrent specifications make no transport call or one
ConcBody(t) == fr'[t].made = ConcCallOf(t) /\ fr'[t].ncalls = 1

\* the calls of the concurrent specifications: client.batch_kw(...) and
\* client.batch_kw.job(...), no job_id
ConcFrame(f) == f.inst = "client" /\ f.op = "batch_kw" /\ f.job_id = NoJobId

\* a recording stub is still the entry point of a head though the capture that
\* installed it has ended; the callers of the concurrent specifications make no
\* further call on a client left like that
Leaked == \E h \in Heads : request[h] # "real" /\ \A t \in Threads : fr[t].capture # request[h]

\* the caller of the call that ended last has its result (the next step of
\* any thread comes after that)
ResultTaken == last = NoLast

\* the frame the call thread t starts in this step gets
Started(t) == IF fr'[t].kind = "none" THEN last'.f ELSE fr'[t]

NextConc ==
    \/ Taken
    \/ \E t \in Threads :
        \/ ~Leaked /\ Call(t) /\ ConcFrame(Started(t))
        \/ ~Leaked /\ JobBegin(t) /\ ConcFrame(fr'[t])
        \/ ResultTaken /\ JobInstall(t)
        \/ ResultTaken /\ JobSubmit(t)
        \/ ResultTaken /\ StubbedCall(t) /\ ConcBody(t)
        \/ ResultTaken /\ TransportCall(t) /\ ConcBody(t)
        \/ ResultTaken /\ BodyReturn(t)
        \/ ResultTaken /\ JobBuild(t) /\ fr'[t].desc.id \in {"", Dec(RandLo)}
        \/ ResultTaken /\ JobFinally(t)

SpecConc == Init /\ [][NextConc]_vars

(***************************************************************************)
(* Two tasks t1 and t2 of one running event loop, on one thread: turn is   *)
(* the task the loop is running, and the loop goes over to the other task  *)
(* only where the running one is suspended.                                *)
(***************************************************************************)
InitTasks ==
    /\ request = [h \in Heads |-> "real"]
    /\ captured = [c \in CaptureIds |-> NoCapture]
    /\ pc = [t \in Threads |-> "idle"]
    /\ fr = [t \in Threads |-> IdleFrame]
    /\ loop = [t \in Threads |-> "running"]
    /\ coro = [t \in Threads |-> NoCoro]
    /\ last = NoLast
    /\ retry = RetryIdle
    /\ ever = FALSE
    /\ turn = "t1"

\* faulty variant: job awaiting its worker, the loop free to run other tasks
SuspendedInJob(t) == pc[t] \in {"idle", "body"}

\* task t is at a suspension point: between its calls, or in the body the
\* dispatcher's coroutine runs (await self.func, line 119, down to the await of
\* the transport); job, lines 62-101, is a plain function without await, and
\* line 87 keeps the thread until the worker is done
Suspended(t) == pc[t] = "idle" \/ (pc[t] = "body" /\ fr[t].kind = "await")

\* the loop resumes another task
Switch ==
    /\ Suspended(turn)
    /\ \E t \in Threads \ {turn} : turn' = t
    /\ UNCHANGED <<request, captured, pc, fr, loop, coro, last, retry, ever>>

\* the body of a capture runs on the worker thread, whatever the loop runs
OnWorker(t) == fr[t].kind = "job" /\ pc[t] = "body"

NextTasks ==
    \/ Taken
    \/ Switch
    \/ \E t \in Threads :
        \/ turn = t /\ Call(t) /\ ConcFrame(Started(t))
        \/ turn = t /\ Await(t)
        \/ turn = t /\ JobBegin(t) /\ ConcFrame(fr'[t])
        \/ turn = t /\ JobInstall(t)
        \/ turn = t /\ JobSubmit(t)
        \/ (turn = t \/ OnWorker(t)) /\ StubbedCall(t) /\ ConcBody(t)
        \/ turn = t /\ TransportCall(t) /\ ConcBody(t)
        \/ (turn = t \/ OnWorker(t)) /\ BodyReturn(t)
        \/ turn = t /\ JobBuild(t) /\ fr'[t].desc.id \in {"", Dec(RandLo)}
        \/ turn = t /\ JobFinally(t)

SpecTasks == InitTasks /\ [][NextTasks]_vars

(***************************************************************************)
(* Properties.                                                             *)
(***************************************************************************)
\* frame f is a generic capture (job got past line 66)
IsCapture(f) == f.kind = "job" /\ f.capture # ""

\* frame f is a call of a job form
IsJobCall(f) == f.kind \in {"job", "job_on_request"}

\* what the body of frame f returns once its transport calls are answered
BodyResult(f) == IF f.ncalls = 0 THEN NoneValue ELSE Response(f.made)

\* the merge of the keyword groups of kw, unset entries removed: each key takes
\* its value from the last of params, data, json that sets it
MergedStripped(kw) ==
    LET group(n) == GetGroup(kw, n)
        sets(n) == {k \in DOMAIN group(n) : group(n)[k] # NONE}
    IN [k \in sets("params") \cup sets("data") \cup sets("json") |->
          IF k \in sets("json") THEN group("json")[k]
          ELSE IF k \in sets("data") THEN group("data")[k]
          ELSE group("params")[k]]

\* C1: once a capture has returned or raised, the head's request attribute is
\* the entry point saved before the capture, the real transport, so with no
\* capture in flight every head has the real transport and every transport
\* call of a normal call reaches it.
C1_EntryRestored ==
    /\ (last.outcome # "none" /\ IsCapture(last.f)) =>
          /\ request[HeadOf(last.f.inst)] = last.f.original
          /\ request[HeadOf(last.f.inst)] = "real"
    /\ (\A t \in Threads : fr[t].kind # "job") => \A h \in Heads : request[h] = "real"
    /\ \A t \in Threads :
          fr[t].kind \in {"call", "await"} => fr[t].stubbed = 0 /\ fr[t].hits = fr[t].ncalls
    /\ last.f.kind \in {"call", "await"} =>
          last.f.stubbed = 0 /\ last.f.hits = last.f.ncalls

\* a capture whose body made a transport call and then raised has ended, and
\* the head has the real transport again
C1_Witness ==
    /\ last.outcome = "raise"
    /\ IsCapture(last.f)
    /\ last.f.exc = "ValueError"
    /\ last.f.stubbed = 1
    /\ request[HeadOf(last.f.inst)] = "real"

\* C2: a capture whose body made exactly one transport call and did not fail
\* returns a descriptor with that call's method as method, its endpoint as uri
\* and the stripped merge of its params, data and json groups as params.
C2_DescriptorOfCall ==
    (last.outcome # "none" /\ IsCapture(last.f) /\ last.f.ncalls = 1
       /\ last.f.exc # "ValueError") =>
        /\ last.outcome = "return"
        /\ last.f.desc.method = last.f.made.method
        /\ last.f.desc.uri = last.f.made.endpoint
        /\ last.f.desc.params = MergedStripped(last.f.made.kw)

\* a capture of one call with all three groups, json's entry unset, returned
C2_Witness ==
    /\ last.outcome = "return"
    /\ IsCapture(last.f)
    /\ last.f.ncalls = 1
    /\ last.f.made.method = "POST"
    /\ last.f.made.endpoint = "/a"
    /\ last.f.made.kw = [params |-> [k |-> "1"], data |-> [k |-> "2"], json |-> [k |-> NONE]]
    /\ last.f.desc.params = [k |-> "2"]

C4_Dispatcher ==
    /\ (last.f.kind = "call" /\ ~last.f.inloop) =>
          /\ last.value # Coroutine
          /\ last.outcome = "return" =>
                MayReturn(last.f) /\ last.value = BodyResult(last.f)
          /\ last.outcome = "raise" => last.f.exc \in {"httpx.NetworkError", "ValueError"}
          /\ last.f.op \in AntipublicOps =>
                last.f.ncalls = 1 /\ last.f.made = AntipublicCall(last.f.op, last.f.kwargs)
    /\ (last.f.kind = "call" /\ last.f.inloop) =>
          /\ last.outcome = "return"
          /\ last.value = Coroutine
          /\ last.f.ncalls = 0
          /\ coro[last.thread] =
               [op |-> last.f.op, inst |-> last.f.inst, kwargs |-> last.f.kwargs]
    /\ (last.f.kind = "await" /\ last.outcome = "return") =>
          /\ last.value # Coroutine
          /\ MayReturn(last.f) /\ last.value = BodyResult(last.f)
          /\ last.f.op \in AntipublicOps =>
                last.f.made = AntipublicCall(last.f.op, last.f.kwargs)
    /\ \A t \in Threads : fr[t].kind = "call" => ~fr[t].inloop

\* awaiting the coroutine of info.lines(plain=True) gave the transport's answer
C4_Witness ==
    /\ last.f.kind = "await"
    /\ last.outcome = "return"
    /\ last.f.op = "info.lines"
    /\ last.value = [vk |-> "Response", method |-> "GET", endpoint |-> "/countLinesPlain"]

\* C5: from the start of a capture to its end no transport call of its body
\* reaches the real transport: each goes to the stub, which stores the call in
\* the capture slot and returns None; job_on_request makes no transport call.
C5_NoRequest ==
    /\ \A t \in Threads :
          fr[t].kind = "job" =>
             /\ fr[t].hits = 0
             /\ fr[t].stubbed = fr[t].ncalls
             /\ fr[t].ncalls > 0 =>
                   fr[t].got = NoneValue /\ captured[fr[t].capture] = RecordCall(fr[t].made)
    /\ IsJobCall(last.f) => last.f.hits = 0
    /\ last.f.kind = "job_on_request" => last.f.ncalls = 0 /\ last.f.stubbed = 0

\* a capture whose body has made two transport calls, both recorded
C5_Witness ==
    \E t \in Threads :
        /\ pc[t] = "job_build"
        /\ fr[t].kind = "job"
        /\ fr[t].stubbed = 2
        /\ fr[t].hits = 0

\* the keys group n of kw holds (set or unset), and those it sets
KeysOf(kw, n) == DOMAIN GetGroup(kw, n)
SetKeysOf(kw, n) == {k \in KeysOf(kw, n) : GetGroup(kw, n)[k] # NONE}

\* C6 as stated, on both paths: a key present in params, data and json has
\* json's value in the descriptor, a key present only in params and data has
\* data's, a key present in one group has that group's.
C6_AsStated ==
    (last.outcome = "return" /\ IsJobCall(last.f)) =>
        LET kw == last.f.made.kw
            params == last.f.desc.params
            has(k, v) == k \in DOMAIN params /\ params[k] = v
        IN \A k \in MergeKeys :
              LET in == {n \in GroupNames : k \in KeysOf(kw, n)} IN
              /\ in = GroupNames => has(k, kw["json"][k])
              /\ in = {"params", "data"} => has(k, kw["data"][k])
              /\ \A n \in GroupNames : in = {n} => has(k, kw[n][k])

\* C6: the same with "present" read as "set to a value other than the unset
\* sentinel": a key set in params, data and json has json's value in the
\* descriptor, a key set only in params and data has data's, a key set in one
\* group has that group's, and a key no group sets is not in the descriptor.
C6_Precedence ==
    (last.outcome = "return" /\ IsJobCall(last.f)) =>
        LET kw == last.f.made.kw
            params == last.f.desc.params
            has(k, v) == k \in DOMAIN params /\ params[k] = v
        IN \A k \in MergeKeys :
              LET in == {n \in GroupNames : k \in SetKeysOf(kw, n)} IN
              /\ in = GroupNames => has(k, kw["json"][k])
              /\ in = {"params", "data"} => has(k, kw["data"][k])
              /\ \A n \in GroupNames : in = {n} => has(k, kw[n][k])
              /\ in = {} => k \notin DOMAIN params

\* a capture of a call setting key a in all three groups returned json's value
C6_Witness ==
    /\ last.outcome = "return"
    /\ IsCapture(last.f)
    /\ last.f.made.kw = [params |-> [a |-> "1"], data |-> [a |-> "1", b |-> "2"],
                         json |-> [a |-> "2"]]
    /\ last.f.desc.params = [a |-> "2", b |-> "2"]

\* C7: no descriptor, returned or being returned, has a params entry whose
\* value is the unset sentinel: the keys of params are the keys some captured
\* group sets, so an entry a group holds unset is not carried over.
C7_NoSentinel ==
    /\ \A t \in Threads : \A k \in DOMAIN fr[t].desc.params : fr[t].desc.params[k] # NONE
    /\ \A k \in DOMAIN last.f.desc.params : last.f.desc.params[k] # NONE
    /\ (last.outcome = "return" /\ IsJobCall(last.f)) =>
          DOMAIN last.f.desc.params =
             UNION {SetKeysOf(last.f.made.kw, n) : n \in GroupNames}

\* a capture of a call whose json group holds only an unset entry returned
\* empty params
C7_Witness ==
    /\ last.outcome = "return"
    /\ IsCapture(last.f)
    /\ last.f.made.kw = [json |-> [k |-> NONE]]
    /\ last.f.desc.params = EmptyMap

\* C8 as stated: antipublic.check.job(lines=["a:b","c:d"], insert=True,
\* job_id="7") returns {"id": "7", "method": "POST", "uri": "/checkLines",
\* "params": {"lines": ["a:b","c:d"], "insert": True}}.
C8_CheckJob ==
    (/\ last.outcome # "none"
     /\ IsJobCall(last.f)
     /\ last.f.op = "check"
     /\ last.f.kwargs = [lines |-> "['a:b', 'c:d']", insert |-> "True"]
     /\ last.f.job_id = StrJobId("7")) =>
        /\ last.outcome = "return"
        /\ last.f.desc = [id |-> "7", method |-> "POST", uri |-> "/checkLines",
                          params |-> [lines |-> "['a:b', 'c:d']", insert |-> "True"]]

\* C9 as stated: antipublic.info.lines.job(plain=True) returns a descriptor with
\* method "GET", uri "/countLinesPlain", empty params and a drawn id.
C9_LinesJob ==
    (/\ last.outcome # "none"
     /\ IsJobCall(last.f)
     /\ last.f.op = "info.lines"
     /\ last.f.kwargs = [plain |-> "True"]
     /\ last.f.job_id = NoJobId) =>
        /\ last.outcome = "return"
        /\ last.f.desc.method = "GET"
        /\ last.f.desc.uri = "/countLinesPlain"
        /\ last.f.desc.params = EmptyMap
        /\ \E n \in RandomDraws : last.f.desc.id = Dec(n)

\* C10: RETRY(count) invokes func at most count + 1 times: every attempt but
\* the last failed with a caught fault and was followed by one pause; a guarded
\* attempt that returns ends the call with its result; after count caught
\* failures one more attempt is made whose outcome, whatever it is, is the
\* call's.
C10_RetryBound ==
    /\ retry.calls = Len(retry.outcomes)
    /\ retry.calls <= retry.count + 1
    /\ retry.sleeps <= retry.count
    /\ \A j \in 1..(Len(retry.outcomes) - 1) : retry.outcomes[j] \in TransientFaults
    /\ retry.pc = "guarded" => retry.calls < retry.count /\ retry.sleeps = retry.calls
    /\ retry.pc = "final" => retry.calls = retry.count /\ retry.sleeps = retry.calls
    /\ retry.pc = "sleep" =>
          /\ retry.sleeps = retry.calls - 1
          /\ retry.outcomes[retry.calls] \in TransientFaults
    /\ retry.pc = "done" =>
          /\ retry.calls >= 1
          /\ retry.sleeps = retry.calls - 1
          /\ LET o == retry.outcomes[retry.calls] IN
             /\ retry.result = IF o = "ok" THEN "returned" ELSE o
             /\ o \in TransientFaults => retry.calls = retry.count + 1

\* RETRY(2): two caught failures, then the third attempt's timeout propagated
C10_Witness ==
    /\ retry.pc = "done"
    /\ retry.count = 2
    /\ retry.calls = 3
    /\ retry.sleeps = 2
    /\ retry.result = "httpx.ReadTimeout"

\* C11: under RETRY a failure of func that is not a transient transport fault
\* ends the call at once, on whichever attempt it occurs: it is the outcome of
\* the last invocation made, it is the call's result, and no pause follows it.
C11_OtherPropagates ==
    /\ \A j \in 1..Len(retry.outcomes) :
          retry.outcomes[j] \notin TransientFaults =>
             /\ j = Len(retry.outcomes)
             /\ retry.pc = "done"
             /\ retry.calls = j
             /\ retry.sleeps = j - 1
             /\ retry.result = IF retry.outcomes[j] = "ok" THEN "returned"
                               ELSE retry.outcomes[j]
    /\ retry.pc = "sleep" => retry.outcomes[retry.calls] \in TransientFaults

\* RETRY(3): a timeout, one pause, then another failure on the second attempt,
\* which is the call's result with two attempts left unused
C11_Witness ==
    /\ retry.pc = "done"
    /\ retry.count = 3
    /\ retry.outcomes = <<"httpx.TimeoutException", "other">>
    /\ retry.calls = 2
    /\ retry.sleeps = 1
    /\ retry.result = "other"

\* C12: an exception raised in the operation body reaches the caller as it was
\* raised, from the blocking dispatcher call, from awaiting the dispatcher's
\* coroutine and from job; job lets it through with no descriptor built, and by
\* then the head's request attribute is the saved entry point again.
C12_Propagates ==
    /\ last.f.exc = "ValueError" =>
          /\ last.f.kind \in {"call", "await", "job"}
          /\ last.outcome = "raise"
          /\ last.value = NoValue
          /\ last.f.desc = NoDesc
          /\ last.f.kind = "job" =>
                /\ request[HeadOf(last.f.inst)] = last.f.original
                /\ request[HeadOf(last.f.inst)] = "real"
    /\ last.f.exc = "httpx.NetworkError" =>
          /\ last.f.kind \in {"call", "await"}
          /\ last.outcome = "raise"
          /\ last.value = NoValue
    /\ \A t \in Threads :
          fr[t].exc = "ValueError" =>
             /\ fr[t].kind = "job"
             /\ pc[t] = "job_finally"
             /\ fr[t].desc = NoDesc

\* job called inside a running loop on an operation whose body raised before any
\* transport call: the exception reached the caller, the entry point restored
C12_Witness ==
    /\ last.outcome = "raise"
    /\ last.f.kind = "job"
    /\ last.f.inloop
    /\ last.f.ncalls = 0
    /\ last.f.exc = "ValueError"
    /\ last.f.desc = NoDesc
    /\ request[HeadOf(last.f.inst)] = "real"

\* C13 as stated: a capture whose body returned without making a transport call
\* does not raise: job returns.
C13_ZeroCalls ==
    (/\ last.outcome # "none"
     /\ IsCapture(last.f)
     /\ last.f.ncalls = 0
     /\ last.f.exc \notin {"ValueError", "TypeError"}) =>
        last.outcome = "return"

\* the keyword groups params, data and json all holding mapping m
AllGroups(m) == [n \in GroupNames |-> m]

\* C14: the strip-and-merge rule applied to a stripped mapping merged with itself
\* gives that mapping back: a call whose three groups all hold one mapping with
\* no unset entry has that mapping as descriptor params, and merging the params
\* of any descriptor with themselves, by either builder, leaves them as they are.
C14_Idempotent ==
    (last.outcome = "return" /\ IsJobCall(last.f)) =>
        LET kw == last.f.made.kw
            p == last.f.desc.params
        IN /\ (DOMAIN kw = GroupNames /\ kw = AllGroups(kw["params"])
                 /\ TrimNONE(kw["params"]) = kw["params"]) => p = kw["params"]
           /\ RequestParams(AllGroups(p)) = p
           /\ JobParams([method |-> "POST", endpoint |-> "/a", kw |-> AllGroups(p)]) = p
           /\ Update(TrimNONE(p), TrimNONE(p)) = p

\* request.job with the same stripped two-key mapping as params, data and json
\* returned that mapping
C14_Witness ==
    /\ last.outcome = "return"
    /\ last.f.kind = "job_on_request"
    /\ last.f.made.kw = AllGroups([a |-> "1", b |-> "2"])
    /\ last.f.desc.params = [a |-> "1", b |-> "2"]

\* C15: a capture whose body made more than one transport call and returned
\* raises nothing and returns a descriptor built from the last of them alone:
\* its method, its endpoint and the stripped merge of its groups; the slot job
\* reads holds that call and nothing of the call it replaced.
C15_LastCallWins ==
    /\ (last.outcome # "none" /\ IsCapture(last.f) /\ last.f.ncalls > 1
          /\ last.f.exc # "ValueError") =>
          /\ last.outcome = "return"
          /\ last.f.exc = ""
          /\ last.f.desc.method = last.f.made.method
          /\ last.f.desc.uri = last.f.made.endpoint
          /\ last.f.desc.params = MergedStripped(last.f.made.kw)
    /\ \A t \in Threads :
          (IsCapture(fr[t]) /\ fr[t].ncalls > 1) =>
             /\ captured[fr[t].capture] = RecordCall(fr[t].made)
             /\ fr[t].overwritten.method # ""

\* a capture whose body called GET /a with params and then POST /b with json
\* returned the descriptor of POST /b
C15_Witness ==
    /\ last.outcome = "return"
    /\ IsCapture(last.f)
    /\ last.f.ncalls = 2
    /\ last.f.overwritten = [method |-> "GET", endpoint |-> "/a"]
    /\ last.f.made = [method |-> "POST", endpoint |-> "/b", kw |-> [json |-> [k |-> "3"]]]
    /\ last.f.desc.method = "POST"
    /\ last.f.desc.uri = "/b"
    /\ last.f.desc.params = [k |-> "3"]

\* C16: run_until_complete is never started on a loop that is running: the
\* dispatcher drives the calling thread's loop only when it found it not running
\* (so nothing ends in the RuntimeError such a drive raises), and job leaves the
\* calling thread's loop as it is and has its worker thread drive a loop of its
\* own from creation to close; job called inside a running loop returns its
\* descriptor with that loop still running.
C16_NoDriveOnRunning ==
    /\ last.f.exc # "RuntimeError"
    /\ \A t \in Threads :
          /\ fr[t].exc # "RuntimeError"
          /\ fr[t].kind = "call" => ~fr[t].inloop /\ loop[t] = "running"
          /\ fr[t].kind \in {"call", "await"} => fr[t].worker = "none"
          /\ fr[t].kind = "job" =>
                /\ (loop[t] = "running") = fr[t].inloop
                /\ pc[t] \in {"job_install", "job_submit"} => fr[t].worker = "none"
                /\ pc[t] = "body" => fr[t].worker = "driven"
                /\ pc[t] \in {"job_build", "job_finally"} => fr[t].worker = "closed"
    /\ (last.outcome # "none" /\ IsCapture(last.f)) =>
          /\ last.f.worker = "closed"
          /\ (loop[last.thread] = "running") = last.f.inloop
          /\ last.f.exc = "" =>
                /\ last.outcome = "return"
                /\ last.f.desc.method = last.f.made.method
                /\ last.f.desc.uri = last.f.made.endpoint

\* job called inside a running loop returned the descriptor of the one call its
\* body made, the loop of the calling thread still running
C16_Witness ==
    /\ last.outcome = "return"
    /\ IsCapture(last.f)
    /\ last.f.inloop
    /\ loop[last.thread] = "running"
    /\ last.f.worker = "closed"
    /\ last.f.ncalls = 1
    /\ last.f.desc.method = "GET"
    /\ last.f.desc.uri = "/b"

\* C17 as stated: a dispatcher call running on one thread while a capture on the
\* same client is in flight on another has every transport call of its body
\* answered by the real transport, none taken by the recording stub.
C17_Isolated ==
    \A t \in Threads :
        fr[t].kind \in {"call", "await"} =>
            /\ fr[t].stubbed = 0
            /\ fr[t].hits = fr[t].ncalls
            /\ fr[t].ncalls > 0 => fr[t].got = Response(fr[t].made)

\* every caller is between calls
AllIdle == \A t \in Threads : pc[t] = "idle"

\* C18: with two captures on one head overlapping, each return of job leaves in
\* the head's request attribute whatever that capture saved, which is the
\* other's recording stub when it was saved after the other installed it, and
\* each descriptor is built from whatever the capture's own slot holds by then,
\* whichever body wrote it; so captures can end with the head's entry point
\* still a recording stub and with a descriptor of a call another operation made.
C18_Stomped ==
    /\ (last.outcome # "none" /\ IsCapture(last.f)) =>
          /\ request[HeadOf(last.f.inst)] = last.f.original
          /\ last.f.original # last.f.capture
          /\ last.f.original # "real" => Leaked \/ ~AllIdle
    /\ (last.outcome = "return" /\ IsCapture(last.f)) =>
          \E u \in Threads :
             /\ last.f.desc = JobDescriptor(ConcCallOf(u), last.f.job_id, RandLo)
             /\ last.f.ncalls = 0 => u # last.thread
    /\ (AllIdle /\ \A h \in Heads : request[h] = "real") => ~Leaked

\* both captures have returned, the head's entry point is still the stub of the
\* first, and the second, whose body made no transport call, returned the
\* descriptor of the call the first one's body made
C18_Witness ==
    /\ AllIdle
    /\ request["client"] # "real"
    /\ Leaked
    /\ last.thread = "t2"
    /\ last.outcome = "return"
    /\ IsCapture(last.f)
    /\ last.f.ncalls = 0
    /\ last.f.desc.method = "GET"
    /\ last.f.desc.uri = "/a"

\* C19: with one caller making one capture after the other, every capture has a
\* RequestCapture object of its own whose slot is empty until the capture's own
\* body makes a transport call and then holds that body's last call; a returned
\* descriptor has the method and endpoint of a call its own body made, and a
\* capture whose body made none finds the slot empty whatever earlier captures
\* recorded.
C19_FreshSlot ==
    /\ \A t \in Threads :
          IsCapture(fr[t]) =>
             /\ captured[fr[t].capture].set <=> fr[t].ncalls > 0
             /\ fr[t].ncalls = 0 => captured[fr[t].capture] = NoCapture
             /\ fr[t].ncalls > 0 => captured[fr[t].capture].call = fr[t].made
             /\ fr[t].original # fr[t].capture
             /\ pc[t] = "job_install" => \A h \in Heads : request[h] # fr[t].capture
    /\ (last.outcome = "return" /\ IsCapture(last.f)) =>
          /\ last.f.ncalls >= 1
          /\ last.f.stubbed = last.f.ncalls
          /\ last.f.desc.method = last.f.made.method
          /\ last.f.desc.uri = last.f.made.endpoint
    /\ (last.outcome # "none" /\ IsCapture(last.f) /\ last.f.ncalls = 0
          /\ last.f.exc \notin {"ValueError", "TypeError"}) =>
          /\ last.outcome = "raise"
          /\ last.f.exc = "AttributeError"
          /\ last.f.desc = NoDesc

\* after a capture that recorded a transport call, a capture whose body called
\* POST /b once returned the descriptor of POST /b
C19_Witness ==
    /\ ever
    /\ last.outcome = "return"
    /\ IsCapture(last.f)
    /\ last.f.ncalls = 1
    /\ last.f.made.method = "POST"
    /\ last.f.made.endpoint = "/b"
    /\ last.f.desc.method = "POST"
    /\ last.f.desc.uri = "/b"
    /\ last.f.desc.params = EmptyMap

\* C20: with job called by a task of a running loop, the loop runs that task
\* from job's first line to its return: while a recording stub is the entry
\* point of a head the task the loop runs is the one inside job, so no other
\* task's transport call is taken by a stub, and no stub is left behind.
C20_NoInterleaving ==
    /\ \A t \in Threads :
          /\ (fr[t].kind = "job" /\ pc[t] # "idle") => turn = t
          /\ fr[t].kind \in {"call", "await"} =>
                /\ fr[t].stubbed = 0
                /\ fr[t].hits = fr[t].ncalls
    /\ (\E h \in Heads : request[h] # "real") =>
          /\ fr[turn].kind = "job"
          /\ pc[turn] \in {"job_submit", "body", "job_build", "job_finally"}
          /\ request[HeadOf(fr[turn].inst)] = fr[turn].capture
    /\ last.f.kind \in {"call", "await"} => last.f.stubbed = 0
    /\ ~Leaked

\* task t1's job has returned its descriptor while task t2 is suspended in a
\* body that had its transport call answered by the real transport
C20_Witness ==
    /\ last.thread = "t1"
    /\ last.outcome = "return"
    /\ IsCapture(last.f)
    /\ last.f.inloop
    /\ last.f.stubbed = 1
    /\ pc["t2"] = "body"
    /\ fr["t2"].kind = "await"
    /\ fr["t2"].hits = 1
    /\ fr["t2"].stubbed = 0
    /\ request["client"] = "real"

====
